---- MODULE Spec2Model ----
(***************************************************************************)
(* Model of the CSV migration converter (converter/convert_csv.go and the  *)
(* helpers of utils/utils.go) and of the schema generator                  *)
(* (generator/generate_schemas.go, ai.CallAI, utils.ParseAIResponse).      *)
(*                                                                         *)
(* Strings are sequences of one-character strings, so that                 *)
(* strings.TrimSpace, case and exact equality are computed, not assumed.   *)
(* CSV text is a sequence of lines, each line the sequence of the contents *)
(* of its comma-separated fields, written without quotes.  The text "" is  *)
(* the empty sequence of lines, a line of no fields is an empty line of    *)
(* the text, and a line whose only field is the empty string is the line   *)
(* of one quoted empty field ("").                                         *)
(* Go slices are 0-based, sequences here are 1-based: position k of the    *)
(* code is position k+1 of the model.                                      *)
(***************************************************************************)
EXTENDS Integers, Sequences, FiniteSets, TLC

VARIABLES pc, csvString, sourceSchema, targetSchema, result, fs, logged,
          aiMode, apiKey, sent, resp

vars == <<pc, csvString, sourceSchema, targetSchema, result, fs, logged,
          aiMode, apiKey, sent, resp>>

\* the state of the schema generator: its aiMode variable, whether the
\* environment sets OLLAMA_API_KEY, the endpoints a request was posted to,
\* and the text of the last AI response
generatorVars == <<aiMode, apiKey, sent, resp>>

\* the converter program does not touch them
GeneratorUnused == aiMode = <<>> /\ apiKey = FALSE /\ sent = <<>> /\ resp = <<>>

(***************************************************************************)
(* Bounds of the model.                                                    *)
(***************************************************************************)
MaxCols == 2    \* fields per line of CSV text
MaxRows == 1    \* data lines after the header line
MaxSrc  == 2    \* entries of a source schema
MaxTgt  == 2    \* entries of a target schema

(***************************************************************************)
(* strings                                                                 *)
(***************************************************************************)
\* the whitespace of strings.TrimSpace and of JSON
IsSpace(c) == c \in {" ", "\t", "\n", "\r"}

RECURSIVE TrimLeft(_)
TrimLeft(s) == IF s # <<>> /\ IsSpace(Head(s)) THEN TrimLeft(Tail(s)) ELSE s

RECURSIVE TrimRight(_)
TrimRight(s) ==
    IF s # <<>> /\ IsSpace(s[Len(s)])
    THEN TrimRight(SubSeq(s, 1, Len(s) - 1))
    ELSE s

TrimSpace(s) == TrimRight(TrimLeft(s))

(***************************************************************************)
(* types.ColumnSchema.  A ValuesMapping is [isNil, kv]: the Go map, nil    *)
(* when the JSON field is absent or null.                                  *)
(***************************************************************************)
NilMapping == [isNil |-> TRUE, kv |-> <<>>]

ColumnSchema(column, target, mapping) ==
    [Column |-> column, TargetColumn |-> target, Values |-> <<>>,
     ValuesMapping |-> mapping]

(***************************************************************************)
(* utils.ReadCSVString: encoding/csv with the default settings.  Empty     *)
(* lines are skipped; FieldsPerRecord = 0 makes every record have as many  *)
(* fields as the first one, else ErrFieldCount.                            *)
(***************************************************************************)
IsEmptyLine(line) == Len(line) = 0

SkipEmptyLines(lines) == SelectSeq(lines, LAMBDA l : ~IsEmptyLine(l))

FieldCountOK(recs) == \A k \in 1..Len(recs) : Len(recs[k]) = Len(recs[1])

\* ReadCSVString without its two emptiness checks
ReadCSVStringNoChecks(s) ==
    LET recs == SkipEmptyLines(s) IN
    IF ~FieldCountOK(recs)
    THEN [err |-> "failed to parse CSV", records |-> <<>>]
    ELSE [err |-> "", records |-> recs]

ReadCSVString(s) ==
    IF Len(s) = 0 THEN [err |-> "no CSV data to convert", records |-> <<>>]
    ELSE LET recs == SkipEmptyLines(s) IN
         IF ~FieldCountOK(recs)
         THEN [err |-> "failed to parse CSV", records |-> <<>>]
         ELSE IF Len(recs) < 1
         THEN [err |-> "CSV has no data", records |-> <<>>]
         ELSE [err |-> "", records |-> recs]

(***************************************************************************)
(* converter: convertValue and convertData                                 *)
(***************************************************************************)
\* convertValue that never consults the mapping
convertValueIgnoresMapping(value, sourceCol) == value

\* convertValue that blanks a value the entry's values list does not contain
convertValueChecksValues(value, sourceCol) ==
    IF sourceCol.Values # <<>> /\ (\A k \in 1..Len(sourceCol.Values) : sourceCol.Values[k] # value)
    THEN <<>>
    ELSE IF ~sourceCol.ValuesMapping.isNil /\ value \in DOMAIN sourceCol.ValuesMapping.kv
    THEN sourceCol.ValuesMapping.kv[value]
    ELSE value

\* convertValue that trims the mapped value
convertValueTrimsMapped(value, sourceCol) ==
    IF ~sourceCol.ValuesMapping.isNil /\ value \in DOMAIN sourceCol.ValuesMapping.kv
    THEN TrimSpace(sourceCol.ValuesMapping.kv[value])
    ELSE value

convertValue(value, sourceCol) ==
    IF ~sourceCol.ValuesMapping.isNil /\ value \in DOMAIN sourceCol.ValuesMapping.kv
    THEN sourceCol.ValuesMapping.kv[value]
    ELSE value

\* m[key] = v of a Go map
MapPut(m, key, v) == [k \in (DOMAIN m) \cup {key} |-> IF k = key THEN v ELSE m[k]]

EmptyMap == [k \in {} |-> 0]

\* the index built from the header names as written, not trimmed
BuildColIndexRaw(header, i, m) ==
    [name \in {header[j] : j \in i..Len(header)} \cup DOMAIN m |->
        IF \E j \in i..Len(header) : header[j] = name
        THEN CHOOSE j \in i..Len(header) :
                 header[j] = name /\ \A j2 \in i..Len(header) : header[j2] = name => j2 <= j
        ELSE m[name]]

\* an index that keeps the first position of a repeated name
BuildColIndexFirstWins(header, i, m) ==
    [name \in {TrimSpace(header[j]) : j \in i..Len(header)} \cup DOMAIN m |->
        IF name \in DOMAIN m THEN m[name]
        ELSE CHOOSE j \in i..Len(header) :
                 /\ TrimSpace(header[j]) = name
                 /\ \A j2 \in i..Len(header) : TrimSpace(header[j2]) = name => j <= j2]

\* for i, colName := range records[0] { sourceColIndex[TrimSpace(colName)] = i }
RECURSIVE BuildColIndex(_, _, _)
BuildColIndex(header, i, m) ==
    IF i > Len(header) THEN m
    ELSE BuildColIndex(header, i + 1, MapPut(m, TrimSpace(header[i]), i))

sourceColIndex(header) == BuildColIndex(header, 1, EmptyMap)

\* a scan that falls back to the first entry when no entry matches
ScanSourceFallback(schema, k, name) ==
    LET M == {j \in k..Len(schema) : schema[j].TargetColumn = name} IN
    IF M # {} THEN CHOOSE j \in M : \A j2 \in M : j <= j2
    ELSE IF Len(schema) > 0 THEN 1 ELSE 0

\* a scan that stops at the last matching entry instead of the first
ScanSourceLast(schema, k, name) ==
    LET M == {j \in k..Len(schema) : schema[j].TargetColumn = name} IN
    IF M = {} THEN 0 ELSE CHOOSE j \in M : \A j2 \in M : j2 <= j

\* for _, sourceCol := range sourceSchema { if TargetColumn == targetCol.Column {...; break} }
\* the position of the entry the scan stops at, 0 when it runs to the end
RECURSIVE ScanSource(_, _, _)
ScanSource(schema, k, name) ==
    IF k > Len(schema) THEN 0
    ELSE IF schema[k].TargetColumn = name THEN k
    ELSE ScanSource(schema, k + 1, name)

\* the loop body without strings.TrimSpace on the source cell
outputCellUntrimmed(sourceRow, colIndex, schema, targetCol) ==
    LET k == ScanSource(schema, 1, targetCol.Column) IN
    IF k = 0 THEN <<>>
    ELSE LET sourceCol == schema[k] IN
         IF sourceCol.Column \in DOMAIN colIndex
            /\ colIndex[sourceCol.Column] <= Len(sourceRow)
         THEN LET sourceValue == sourceRow[colIndex[sourceCol.Column]] IN
              IF sourceValue # <<>> THEN convertValue(sourceValue, sourceCol) ELSE <<>>
         ELSE <<>>

\* the loop body without the test sourceValue != ""
outputCellNoBlankCheck(sourceRow, colIndex, schema, targetCol) ==
    LET k == ScanSource(schema, 1, targetCol.Column) IN
    IF k = 0 THEN <<>>
    ELSE LET sourceCol == schema[k] IN
         IF sourceCol.Column \in DOMAIN colIndex
            /\ colIndex[sourceCol.Column] <= Len(sourceRow)
         THEN convertValue(TrimSpace(sourceRow[colIndex[sourceCol.Column]]), sourceCol)
         ELSE <<>>

\* the loop body that goes on to a later matching entry when an earlier
\* one gives no value
outputCellTriesLater(sourceRow, colIndex, schema, targetCol) ==
    LET M == {k \in 1..Len(schema) :
                 /\ schema[k].TargetColumn = targetCol.Column
                 /\ schema[k].Column \in DOMAIN colIndex
                 /\ colIndex[schema[k].Column] <= Len(sourceRow)
                 /\ TrimSpace(sourceRow[colIndex[schema[k].Column]]) # <<>>} IN
    IF M = {} THEN <<>>
    ELSE LET k == CHOOSE k \in M : \A k2 \in M : k <= k2 IN
         convertValue(TrimSpace(sourceRow[colIndex[schema[k].Column]]), schema[k])

\* the body of the loop over targetSchema: the value stored in outputRow[i]
outputCell(sourceRow, colIndex, schema, targetCol) ==
    LET k == ScanSource(schema, 1, targetCol.Column) IN
    IF k = 0 THEN <<>>
    ELSE LET sourceCol == schema[k] IN
         IF sourceCol.Column \in DOMAIN colIndex
            /\ colIndex[sourceCol.Column] <= Len(sourceRow)
         THEN LET sourceValue == TrimSpace(sourceRow[colIndex[sourceCol.Column]]) IN
              IF sourceValue # <<>> THEN convertValue(sourceValue, sourceCol) ELSE <<>>
         ELSE <<>>

\* an output header that lists the target columns in reverse order
outputHeaderReversed(tgt) == [i \in 1..Len(tgt) |-> tgt[Len(tgt) + 1 - i].Column]

outputHeader(tgt) == [i \in 1..Len(tgt) |-> tgt[i].Column]

outputRow(sourceRow, colIndex, src, tgt) ==
    [i \in 1..Len(tgt) |-> outputCell(sourceRow, colIndex, src, tgt[i])]

\* convertData whose row loop stops one row early
convertDataSkipsLastRow(csv, src, tgt) ==
    LET r == ReadCSVString(csv) IN
    IF r.err # "" THEN [err |-> "failed to parse CSV", output |-> <<>>]
    ELSE LET colIndex == sourceColIndex(r.records[1]) IN
         [err |-> "",
          output |-> <<outputHeader(tgt)>> \o
                     [n \in 1..(Len(r.records) - 2) |->
                         outputRow(r.records[n + 1], colIndex, src, tgt)]]

\* the returned pair (output, err); a nil output is <<>>, a nil err is ""
convertData(csv, src, tgt) ==
    LET r == ReadCSVString(csv) IN
    IF r.err # "" THEN [err |-> "failed to parse CSV", output |-> <<>>]
    ELSE IF Len(r.records) = 0
    THEN [err |-> "panic: index out of range", output |-> <<>>]
    ELSE LET colIndex == sourceColIndex(r.records[1]) IN
         [err |-> "",
          output |-> <<outputHeader(tgt)>> \o
                     [n \in 1..(Len(r.records) - 1) |->
                         outputRow(r.records[n + 1], colIndex, src, tgt)]]

(***************************************************************************)
(* The inputs the model draws from.                                        *)
(***************************************************************************)
SeqsUpTo(S, lo, hi) == UNION {[1..n -> S] : n \in lo..hi}

ColNames == {<<"a">>, <<" ", "a", " ">>, <<"A">>}

TargetNames == {<<"p">>, <<"q">>}

CellVals == {<<>>, <<" ">>, <<" ", "x", " ">>, <<"x", "+", "y">>}

\* "x" is mapped; the empty string and the untrimmed " x " are keys too
MapA == [isNil |-> FALSE,
         kv |-> (<<"x">> :> <<"z">>) @@ (<<>> :> <<"z">>)
                @@ (<<" ", "x", " ">> :> <<"w">>)]

\* a mapping that swaps "x" and the composite value "x+y"
MapB == [isNil |-> FALSE,
         kv |-> (<<"x">> :> <<"x", "+", "y">>) @@ (<<"x", "+", "y">> :> <<"x">>)]

Mappings == {NilMapping, MapA, MapB}

SourceEntries ==
    {ColumnSchema(c, t, m) : c \in ColNames, t \in TargetNames, m \in Mappings}

TargetEntries == {ColumnSchema(c, <<>>, NilMapping) : c \in TargetNames}

SourceSchemas == SeqsUpTo(SourceEntries, 0, MaxSrc)

TargetSchemas == SeqsUpTo(TargetEntries, 0, MaxTgt)

HeaderLines == SeqsUpTo(ColNames, 1, MaxCols)

DataLines == SeqsUpTo(CellVals, 0, MaxCols)

CsvStrings ==
    SeqsUpTo(DataLines, 0, MaxRows)
    \cup {<<h>> \o d : h \in HeaderLines, d \in SeqsUpTo(DataLines, 0, MaxRows)}

(***************************************************************************)
(* utils: the files the converter program reads and writes.                *)
(* A schema file is [status, schema]: missing, malformed JSON, or the      *)
(* schema json.Decoder yields.  A CSV file is [exists, lines].  The output *)
(* file is [exists, touched, lines]; touched: created or truncated by this *)
(* run.                                                                    *)
(***************************************************************************)
LoadSchemaJSON(file) ==
    IF file.status = "missing" THEN [err |-> "open", schema |-> <<>>]
    ELSE IF file.status = "malformed" THEN [err |-> "decode", schema |-> <<>>]
    ELSE [err |-> "", schema |-> file.schema]

\* csv.Writer: a record that is one empty field (or no field) is written
\* as an empty line; quoting keeps the content of every other field
csvWrite(recs) ==
    [k \in 1..Len(recs) |-> IF recs[k] = << <<>> >> THEN <<>> ELSE recs[k]]

\* csv.Reader with TrimLeadingSpace = true
ReadAllTrimLeading(lines) ==
    LET kept == SkipEmptyLines(lines) IN
    [k \in 1..Len(kept) |-> [j \in 1..Len(kept[k]) |-> TrimLeft(kept[k][j])]]

MinRecords == 2

\* ReadCSVFile that asks for one record only
ReadCSVFileOneRecord(file) ==
    IF ~file.exists THEN [err |-> "open", csv |-> <<>>]
    ELSE LET recs == ReadAllTrimLeading(file.lines) IN
         IF ~FieldCountOK(recs) THEN [err |-> "parse", csv |-> <<>>]
         ELSE IF Len(recs) < 1
         THEN [err |-> "CSV must have at least header and one data row",
               csv |-> <<>>]
         ELSE [err |-> "", csv |-> csvWrite(recs)]

ReadCSVFile(file) ==
    IF ~file.exists THEN [err |-> "open", csv |-> <<>>]
    ELSE LET recs == ReadAllTrimLeading(file.lines) IN
         IF ~FieldCountOK(recs) THEN [err |-> "parse", csv |-> <<>>]
         ELSE IF Len(recs) < MinRecords
         THEN [err |-> "CSV must have at least header and one data row",
               csv |-> <<>>]
         ELSE [err |-> "", csv |-> csvWrite(recs)]

AbsentOut == [exists |-> FALSE, touched |-> FALSE, lines |-> <<>>]

OldOut == [exists |-> TRUE, touched |-> FALSE, lines |-> << << <<"o">> >> >>]

\* the outcomes of WriteCSV(path, recs) on the output file out: os.Create
\* fails; or it truncates the file and WriteAll writes all of recs, or
\* fails after a part of them
WriteCSV(out, recs) ==
    {[err |-> "create", out |-> out],
     [err |-> "", out |-> [exists |-> TRUE, touched |-> TRUE, lines |-> csvWrite(recs)]]}
    \cup {[err |-> "write",
           out |-> [exists |-> TRUE, touched |-> TRUE,
                    lines |-> SubSeq(csvWrite(recs), 1, n)]] : n \in 0..(Len(recs) - 1)}

MissingSchema == [status |-> "missing", schema |-> <<>>]

MalformedSchema == [status |-> "malformed", schema |-> <<>>]

SchemaFiles(S) ==
    {MissingSchema, MalformedSchema} \cup {[status |-> "ok", schema |-> sch] : sch \in S}

\* CSV files: the texts above, and the files of one-field lines only
OneFieldFiles == [1..(MaxRows + 1) -> SeqsUpTo(CellVals, 1, 1)]

DataFiles ==
    {[exists |-> FALSE, lines |-> <<>>]}
    \cup {[exists |-> TRUE, lines |-> t] : t \in CsvStrings \cup OneFieldFiles}

NoFiles ==
    [source |-> MissingSchema, target |-> MissingSchema,
     data |-> [exists |-> FALSE, lines |-> <<>>], out |-> AbsentOut]

NoResult == [err |-> "", output |-> <<>>]

(***************************************************************************)
(* converter: main.  pc is the next statement; log.Fatalf ends the run     *)
(* with pc = "fatal" and its message in logged.                            *)
(***************************************************************************)
MaxMainSrc == 1   \* entries of a source schema in SpecMain and SpecRows

InitMain ==
    /\ pc = "loadSource"
    /\ fs \in [source : SchemaFiles(SeqsUpTo(SourceEntries, 0, MaxMainSrc)),
                target : SchemaFiles(TargetSchemas),
                data : DataFiles,
                out : {AbsentOut, OldOut}]
    /\ csvString = <<>>
    /\ sourceSchema = <<>>
    /\ targetSchema = <<>>
    /\ result = NoResult
    /\ logged = ""
    /\ GeneratorUnused

LoadSourceSchema ==
    /\ pc = "loadSource"
    /\ LET r == LoadSchemaJSON(fs.source) IN
       IF r.err # ""
       THEN /\ pc' = "fatal"
            /\ logged' = "Error loading source schema"
            /\ UNCHANGED sourceSchema
       ELSE /\ pc' = "loadTarget"
            /\ sourceSchema' = r.schema
            /\ UNCHANGED logged
    /\ UNCHANGED <<csvString, targetSchema, result, fs>>
    /\ UNCHANGED generatorVars

LoadTargetSchema ==
    /\ pc = "loadTarget"
    /\ LET r == LoadSchemaJSON(fs.target) IN
       IF r.err # ""
       THEN /\ pc' = "fatal"
            /\ logged' = "Error loading target schema"
            /\ UNCHANGED targetSchema
       ELSE /\ pc' = "readCSV"
            /\ targetSchema' = r.schema
            /\ UNCHANGED logged
    /\ UNCHANGED <<csvString, sourceSchema, result, fs>>
    /\ UNCHANGED generatorVars

ReadCSVData ==
    /\ pc = "readCSV"
    /\ LET r == ReadCSVFile(fs.data) IN
       IF r.err # ""
       THEN /\ pc' = "fatal"
            /\ logged' = "Error reading CSV data"
            /\ UNCHANGED csvString
       ELSE /\ pc' = "convert"
            /\ csvString' = r.csv
            /\ UNCHANGED logged
    /\ UNCHANGED <<sourceSchema, targetSchema, result, fs>>
    /\ UNCHANGED generatorVars

\* main that goes on to write whatever convertData returned
ConvertCSVDataIgnoresError ==
    /\ pc = "convert"
    /\ result' = convertData(csvString, sourceSchema, targetSchema)
    /\ pc' = "write"
    /\ UNCHANGED <<csvString, sourceSchema, targetSchema, fs, logged>>
    /\ UNCHANGED generatorVars

ConvertCSVData ==
    /\ pc = "convert"
    /\ result' = convertData(csvString, sourceSchema, targetSchema)
    /\ IF result'.err # ""
       THEN pc' = "fatal" /\ logged' = "Error converting data"
       ELSE pc' = "write" /\ UNCHANGED logged
    /\ UNCHANGED <<csvString, sourceSchema, targetSchema, fs>>
    /\ UNCHANGED generatorVars

WriteOutputCSV ==
    /\ pc = "write"
    /\ \E w \in WriteCSV(fs.out, result.output) :
          /\ fs' = [fs EXCEPT !.out = w.out]
          /\ IF w.err # ""
             THEN pc' = "fatal" /\ logged' = "Error writing output CSV"
             ELSE pc' = "done" /\ UNCHANGED logged
    /\ UNCHANGED <<csvString, sourceSchema, targetSchema, result>>
    /\ UNCHANGED generatorVars

NextMain ==
    \/ LoadSourceSchema
    \/ LoadTargetSchema
    \/ ReadCSVData
    \/ ConvertCSVData
    \/ WriteOutputCSV

SpecMain == InitMain /\ [][NextMain]_vars

(***************************************************************************)
(* A call of convertData on arbitrary arguments.                           *)
(***************************************************************************)
InitConvert ==
    /\ pc = "convertData"
    /\ csvString \in CsvStrings
    /\ sourceSchema \in SourceSchemas
    /\ targetSchema \in TargetSchemas
    /\ result = NoResult
    /\ fs = NoFiles
    /\ logged = ""
    /\ GeneratorUnused

\* a call that writes the trimmed column names back into the source schema
CallConvertDataNormalisesSchema ==
    /\ pc = "convertData"
    /\ result' = convertData(csvString, sourceSchema, targetSchema)
    /\ pc' = "returned"
    /\ sourceSchema' =
          [k \in 1..Len(sourceSchema) |->
              [sourceSchema[k] EXCEPT !.Column = TrimSpace(@)]]
    /\ UNCHANGED <<csvString, targetSchema, fs, logged>>
    /\ UNCHANGED generatorVars

CallConvertData ==
    /\ pc = "convertData"
    /\ result' = convertData(csvString, sourceSchema, targetSchema)
    /\ pc' = "returned"
    /\ UNCHANGED <<csvString, sourceSchema, targetSchema, fs, logged>>
    /\ UNCHANGED generatorVars

NextConvert == CallConvertData

SpecConvert == InitConvert /\ [][NextConvert]_vars

(***************************************************************************)
(* A call of convertData on longer texts (up to MaxRows + 1 data lines of  *)
(* any width) with source schemas of one mapped entry at most.             *)
(***************************************************************************)
RowTexts ==
    {<<h>> \o d : h \in HeaderLines, d \in SeqsUpTo(DataLines, 0, MaxRows + 1)}

InitRows ==
    /\ pc = "convertData"
    /\ csvString \in RowTexts
    /\ sourceSchema \in
          SeqsUpTo({ColumnSchema(c, <<"p">>, MapA) : c \in ColNames}, 0, MaxMainSrc)
    /\ targetSchema \in TargetSchemas
    /\ result = NoResult
    /\ fs = NoFiles
    /\ logged = ""
    /\ GeneratorUnused

SpecRows == InitRows /\ [][NextConvert]_vars

(***************************************************************************)
(* A call of convertData with an identity schema: the source schema is the *)
(* target schema, every entry has TargetColumn = Column, the columns are   *)
(* unique, and the text is a table whose header is the schema's columns.   *)
(***************************************************************************)
IdentityEntries == {ColumnSchema(c, c, m) : c \in ColNames, m \in Mappings}

UniqueColumns(sch) ==
    \A k1, k2 \in 1..Len(sch) : sch[k1].Column = sch[k2].Column => k1 = k2

IdentitySchemas == {sch \in SeqsUpTo(IdentityEntries, 1, MaxSrc) : UniqueColumns(sch)}

InitIdentity ==
    /\ pc = "convertData"
    /\ sourceSchema \in IdentitySchemas
    /\ targetSchema = sourceSchema
    /\ csvString \in
          {<<outputHeader(sourceSchema)>> \o d :
              d \in SeqsUpTo([1..Len(sourceSchema) -> CellVals], 0, MaxRows + 1)}
    /\ result = NoResult
    /\ fs = NoFiles
    /\ logged = ""
    /\ GeneratorUnused

SpecIdentity == InitIdentity /\ [][NextConvert]_vars

(***************************************************************************)
(* A call of convertData with schemas whose entries carry values lists     *)
(* (ColumnSchema.Values): none, or one that contains the cell content "x"  *)
(* and lacks the cell content "x+y".                                       *)
(***************************************************************************)
ValueLists == {<<>>, << <<"x">>, <<"z">> >>}

ValuesColNames == {<<"a">>, <<"A">>}

ValuesCells == {<<>>, <<" ", "x", " ">>, <<"x", "+", "y">>}

ValuesSourceEntries ==
    {[ColumnSchema(c, t, m) EXCEPT !.Values = v] :
        c \in ValuesColNames, t \in TargetNames, m \in {NilMapping, MapA}, v \in ValueLists}

ValuesTargetEntries ==
    {[ColumnSchema(c, <<>>, NilMapping) EXCEPT !.Values = v] :
        c \in TargetNames, v \in ValueLists}

InitValues ==
    /\ pc = "convertData"
    /\ csvString \in
          {<<h>> \o d : h \in SeqsUpTo(ValuesColNames, 1, MaxCols),
                        d \in SeqsUpTo(SeqsUpTo(ValuesCells, 0, MaxCols), 0, MaxRows)}
    /\ sourceSchema \in SeqsUpTo(ValuesSourceEntries, 0, MaxSrc)
    /\ targetSchema \in SeqsUpTo(ValuesTargetEntries, 0, MaxTgt)
    /\ result = NoResult
    /\ fs = NoFiles
    /\ logged = ""
    /\ GeneratorUnused

SpecValues == InitValues /\ [][NextConvert]_vars

(***************************************************************************)
(* A call of convertData where names may be empty: header cells that are   *)
(* empty or blank, source entries without column ("column": null) or       *)
(* without targetColumn, and target entries with the empty column name.    *)
(***************************************************************************)
BlankHeaderNames == {<<>>, <<" ">>, <<"a">>}

BlankCells == {<<>>, <<" ", "x", " ">>, <<"x", "+", "y">>}

BlankSourceEntries ==
    {ColumnSchema(c, t, m) :
        c \in {<<>>, <<"a">>}, t \in {<<>>, <<"p">>}, m \in {NilMapping, MapA}}

BlankTargetEntries == {ColumnSchema(c, <<>>, NilMapping) : c \in {<<>>, <<"p">>}}

InitBlankNames ==
    /\ pc = "convertData"
    /\ csvString \in
          {<<h>> \o d : h \in SeqsUpTo(BlankHeaderNames, 1, MaxCols),
                        d \in SeqsUpTo(SeqsUpTo(BlankCells, 0, MaxCols), 0, MaxRows)}
    /\ sourceSchema \in SeqsUpTo(BlankSourceEntries, 0, MaxSrc)
    /\ targetSchema \in SeqsUpTo(BlankTargetEntries, 0, MaxTgt)
    /\ result = NoResult
    /\ fs = NoFiles
    /\ logged = ""
    /\ GeneratorUnused

SpecBlankNames == InitBlankNames /\ [][NextConvert]_vars

(***************************************************************************)
(* A call of convertData with a valuesMapping whose values are the empty   *)
(* string, a blank string and a string with surrounding whitespace.        *)
(***************************************************************************)
MapC == [isNil |-> FALSE,
         kv |-> (<<"x">> :> <<>>) @@ (<<"y">> :> <<" ">>)
                @@ (<<"x", "+", "y">> :> <<" ", "z", " ">>)]

MappedColNames == {<<"a">>, <<"A">>}

MappedCells == {<<>>, <<" ", "x", " ">>, <<"y">>, <<"x", "+", "y">>, <<"w">>}

InitMapped ==
    /\ pc = "convertData"
    /\ csvString \in
          {<<h>> \o d : h \in SeqsUpTo(MappedColNames, 1, MaxCols),
                        d \in SeqsUpTo(SeqsUpTo(MappedCells, 0, MaxCols), 0, MaxRows)}
    /\ sourceSchema \in
          SeqsUpTo({ColumnSchema(c, t, m) :
                       c \in MappedColNames, t \in TargetNames, m \in {NilMapping, MapC}},
                   0, MaxSrc)
    /\ targetSchema \in TargetSchemas
    /\ result = NoResult
    /\ fs = NoFiles
    /\ logged = ""
    /\ GeneratorUnused

SpecMapped == InitMapped /\ [][NextConvert]_vars

(***************************************************************************)
(* strings of the AI response.  The literals of ParseAIResponse are        *)
(* written character by character.  A JSON object literal of a schema      *)
(* entry is abbreviated to one symbol of ObjectSymbols, so that a payload  *)
(* is the text  [ {p} , {a>q} ]  with any JSON whitespace between symbols. *)
(***************************************************************************)
\* the grave accent, which a string of this language cannot hold
Backtick == "GRAVE"

Backticks == <<Backtick, Backtick, Backtick>>

FenceJson == Backticks \o <<"j", "s", "o", "n">>

ThinkOpen == <<"<", "t", "h", "i", "n", "k", ">">>

ThinkClose == <<"<", "/", "t", "h", "i", "n", "k", ">">>

ThinkCloseLen == 8

HasPrefix(s, p) == Len(s) >= Len(p) /\ SubSeq(s, 1, Len(p)) = p

HasSuffix(s, p) == Len(s) >= Len(p) /\ SubSeq(s, Len(s) - Len(p) + 1, Len(s)) = p

TrimPrefix(s, p) == IF HasPrefix(s, p) THEN SubSeq(s, Len(p) + 1, Len(s)) ELSE s

TrimSuffix(s, p) == IF HasSuffix(s, p) THEN SubSeq(s, 1, Len(s) - Len(p)) ELSE s

\* the positions at which sub occurs in s
Occurrences(s, sub) ==
    {i \in 1..(Len(s) - Len(sub) + 1) : SubSeq(s, i, i + Len(sub) - 1) = sub}

Contains(s, sub) == Occurrences(s, sub) # {}

\* strings.LastIndex, as a position: 0 stands for the -1 of Go
LastIndex(s, sub) ==
    IF Occurrences(s, sub) = {} THEN 0
    ELSE CHOOSE i \in Occurrences(s, sub) : \A j \in Occurrences(s, sub) : j <= i

\* the entry json.Unmarshal decodes from an object literal: "column": null
\* and an absent "target_column" leave the empty string, an absent
\* "values_mapping" leaves the nil map
ObjectOf(sym) ==
    CASE sym = "{p}"   -> ColumnSchema(<<"p">>, <<>>, NilMapping)
      [] sym = "{q}"   -> ColumnSchema(<<"q">>, <<>>, NilMapping)
      [] sym = "{a>p}" -> ColumnSchema(<<"a">>, <<"p">>, NilMapping)
      [] sym = "{>q}"  -> ColumnSchema(<<>>, <<"q">>, NilMapping)

ObjectSymbols == {"{p}", "{q}", "{a>p}", "{>q}"}

\* json.Unmarshal of a text into []types.ColumnSchema: an array of object
\* literals separated by commas, JSON whitespace allowed around every symbol
Unmarshal(s) ==
    LET t == SelectSeq(s, LAMBDA c : ~IsSpace(c))
        inner == SubSeq(t, 2, Len(t) - 1)
        wellFormed ==
            /\ Len(t) >= 2
            /\ t[1] = "[" /\ t[Len(t)] = "]"
            /\ \/ Len(inner) = 0
               \/ /\ Len(inner) % 2 = 1
                  /\ \A k \in 1..Len(inner) :
                        IF k % 2 = 1 THEN inner[k] \in ObjectSymbols ELSE inner[k] = ","
    IN IF wellFormed
       THEN [err |-> "",
             schema |-> [k \in 1..((Len(inner) + 1) \div 2) |-> ObjectOf(inner[2 * k - 1])]]
       ELSE [err |-> "JSON unmarshal error", schema |-> <<>>]

ParseAIResponse(r) ==
    LET r1 == TrimSpace(r)
        r2 == TrimPrefix(r1, FenceJson)
        r3 == TrimPrefix(r2, Backticks)
        r4 == TrimSuffix(r3, Backticks)
        r5 == TrimSpace(r4)
        r6 == IF Contains(r5, ThinkOpen) /\ LastIndex(r5, ThinkClose) # 0
              THEN TrimSpace(SubSeq(r5, LastIndex(r5, ThinkClose) + ThinkCloseLen, Len(r5)))
              ELSE r5
        cleaned == TrimSpace(r6)
    IN Unmarshal(cleaned)

(***************************************************************************)
(* The AI responses the model draws from: a payload, bare or in the        *)
(* wrappers models are seen to produce, and texts that are no JSON.        *)
(***************************************************************************)
Payloads ==
    {<<"[", "]">>,
     <<"[", "{p}", "]">>,
     <<"[", "\n", " ", "{p}", ",", "\n", " ", "{q}", "\n", "]">>,
     <<"[", "{a>p}", ",", "{>q}", "]">>}

ThinkTexts == {<<>>, <<"h", "m">>, <<"h", "\n", "[", "]">>}

Bare(P) == P

InFence(open, P) == open \o <<"\n">> \o P \o <<"\n">> \o Backticks

AfterThink(T, body) == ThinkOpen \o T \o ThinkClose \o <<"\n", "\n">> \o body

Padded(r) == <<" ", "\n">> \o r \o <<"\n">>

Wrapped(P) ==
    LET fenced == {InFence(FenceJson, P), InFence(Backticks, P)}
        plain == {Bare(P)} \cup fenced
                 \cup {AfterThink(T, b) : T \in ThinkTexts, b \in {Bare(P)} \cup fenced}
    IN plain \cup {Padded(r) : r \in plain}

NotJSON == {<<>>, <<"h", "m">>, ThinkOpen \o <<"[", "]">>, <<"[", "{p}">>}

Responses == (UNION {Wrapped(P) : P \in Payloads}) \cup NotJSON

NoSchema == [err |-> "", schema |-> <<>>]

(***************************************************************************)
(* A call of ParseAIResponse on an arbitrary response.  The returned pair  *)
(* is kept in result.                                                      *)
(***************************************************************************)
InitParse ==
    /\ pc = "ParseAIResponse"
    /\ resp \in Responses
    /\ result = NoSchema
    /\ csvString = <<>>
    /\ sourceSchema = <<>>
    /\ targetSchema = <<>>
    /\ fs = NoFiles
    /\ logged = ""
    /\ aiMode = <<>>
    /\ apiKey = FALSE
    /\ sent = <<>>

CallParseAIResponse ==
    /\ pc = "ParseAIResponse"
    /\ result' = ParseAIResponse(resp)
    /\ pc' = "returned"
    /\ UNCHANGED <<csvString, sourceSchema, targetSchema, fs, logged,
                   aiMode, apiKey, sent, resp>>

NextParse == CallParseAIResponse

SpecParse == InitParse /\ [][NextParse]_vars

(***************************************************************************)
(* generator: config, ai.CallAI and main of generator/generate_schemas.go. *)
(* fs holds the two sample CSV files and the two schema files written to   *)
(* output/schemas; sent lists the endpoints a request was posted to.       *)
(***************************************************************************)
LOCAL_AI_ENDPOINT == "http://localhost:11434/api/generate"

CLOUD_AI_ENDPOINT == "https://ollama.com/api/chat"

\* the responses an AI call may bring back
GeneratorResponses ==
    {<<"[", "{p}", "]">>,
     InFence(FenceJson, <<"[", "{p}", ",", "{q}", "]">>),
     AfterThink(<<"h", "m">>, <<"[", "{a>p}", ",", "{>q}", "]">>),
     AfterThink(<<>>, InFence(Backticks, <<"[", "{p}", "]">>)),
     <<"h", "m">>}

\* the outcomes of posting a request to an endpoint: the transport or the
\* decoding of the body fails, or the response text is returned
Post(endpoint) ==
    {[err |-> "http", posted |-> <<endpoint>>, resp |-> <<>>]}
    \cup {[err |-> "", posted |-> <<endpoint>>, resp |-> r] : r \in GeneratorResponses}

callLocalOllama == Post(LOCAL_AI_ENDPOINT)

callCloudOllama(key) ==
    IF ~key
    THEN {[err |-> "OLLAMA_API_KEY is not set", posted |-> <<>>, resp |-> <<>>]}
    ELSE Post(CLOUD_AI_ENDPOINT)

CallAI(mode, key) ==
    IF mode = <<"l", "o", "c", "a", "l">> THEN callLocalOllama
    ELSE callCloudOllama(key)

\* a schema file of output/schemas is [status, schema, touched]; touched:
\* created or truncated by this run
Untouched(file) == [status |-> file.status, schema |-> file.schema, touched |-> FALSE]

\* the outcomes of SaveJSON(path, data) on the schema file: os.Create fails;
\* or it truncates the file and Encode writes the schema, or fails
SaveJSON(file, data) ==
    {[err |-> "create", file |-> file],
     [err |-> "encode", file |-> [status |-> "malformed", schema |-> <<>>, touched |-> TRUE]],
     [err |-> "", file |-> [status |-> "ok", schema |-> data, touched |-> TRUE]]}

\* the answers to the AI-mode prompt, as typed
ModeAnswers ==
    {<<>>, <<" ">>,
     <<"C", "L", "O", "U", "D">>,
     <<"L", "O", "C", "A", "L">>,
     <<" ", "L", "O", "C", "A", "L", " ">>,
     <<"l", "o", "c", "a", "l">>}

SampleFiles ==
    {[exists |-> FALSE, lines |-> <<>>],
     [exists |-> TRUE, lines |-> << <<<<"a">>>> >>],
     [exists |-> TRUE, lines |-> << <<<<"a">>>>, <<<<"x">>>> >>]}

OldSchemaFile == [status |-> "ok", schema |-> <<ColumnSchema(<<"A">>, <<>>, NilMapping)>>]

InitGenerator ==
    /\ pc = "readAnswers"
    /\ fs \in [targetSample : SampleFiles,
                sourceSample : SampleFiles,
                targetSchema : {Untouched(MissingSchema), Untouched(OldSchemaFile)},
                sourceSchema : {Untouched(MissingSchema), Untouched(OldSchemaFile)}]
    /\ apiKey \in BOOLEAN
    /\ aiMode = <<>>
    /\ sent = <<>>
    /\ resp = <<>>
    /\ csvString = <<>>
    /\ sourceSchema = <<>>
    /\ targetSchema = <<>>
    /\ result = NoResult
    /\ logged = ""

\* the prompts of main; the paths and the schema name select the files of fs
ReadAnswers ==
    /\ pc = "readAnswers"
    /\ \E answer \in ModeAnswers :
          aiMode' = IF TrimSpace(answer) = <<>>
                    THEN <<"C", "L", "O", "U", "D">>
                    ELSE TrimSpace(answer)
    /\ pc' = "generateTarget"
    /\ UNCHANGED <<csvString, sourceSchema, targetSchema, result, fs, logged,
                   apiKey, sent, resp>>

\* generateTargetSchema and the log.Fatalf of main after it
GenerateTargetSchema ==
    /\ pc = "generateTarget"
    /\ LET r == ReadCSVFile(fs.targetSample) IN
       IF r.err # ""
       THEN /\ pc' = "fatal"
            /\ logged' = "Error generating target schema"
            /\ UNCHANGED <<targetSchema, sent, resp>>
       ELSE \E c \in CallAI(aiMode, apiKey) :
               /\ sent' = sent \o c.posted
               /\ resp' = c.resp
               /\ IF c.err # "" \/ ParseAIResponse(c.resp).err # ""
                  THEN /\ pc' = "fatal"
                       /\ logged' = "Error generating target schema"
                       /\ UNCHANGED targetSchema
                  ELSE /\ pc' = "saveTarget"
                       /\ targetSchema' = ParseAIResponse(c.resp).schema
                       /\ UNCHANGED logged
    /\ UNCHANGED <<csvString, sourceSchema, result, fs, aiMode, apiKey>>

\* main that keeps the target schema in memory and does not write its file
SaveTargetSchemaSkipped ==
    /\ pc = "saveTarget"
    /\ pc' = "generateSource"
    /\ UNCHANGED <<csvString, sourceSchema, targetSchema, result, fs, logged, generatorVars>>

SaveTargetSchema ==
    /\ pc = "saveTarget"
    /\ \E w \in SaveJSON(fs.targetSchema, targetSchema) :
          /\ fs' = [fs EXCEPT !.targetSchema = w.file]
          /\ IF w.err # ""
             THEN pc' = "fatal" /\ logged' = "Error saving target schema"
             ELSE pc' = "generateSource" /\ UNCHANGED logged
    /\ UNCHANGED <<csvString, sourceSchema, targetSchema, result, generatorVars>>

\* generateSourceSchema and the log.Fatalf of main after it
GenerateSourceSchema ==
    /\ pc = "generateSource"
    /\ LET r == ReadCSVFile(fs.sourceSample) IN
       IF r.err # ""
       THEN /\ pc' = "fatal"
            /\ logged' = "Error generating source schema"
            /\ UNCHANGED <<sourceSchema, sent, resp>>
       ELSE \E c \in CallAI(aiMode, apiKey) :
               /\ sent' = sent \o c.posted
               /\ resp' = c.resp
               /\ IF c.err # "" \/ ParseAIResponse(c.resp).err # ""
                  THEN /\ pc' = "fatal"
                       /\ logged' = "Error generating source schema"
                       /\ UNCHANGED sourceSchema
                  ELSE /\ pc' = "saveSource"
                       /\ sourceSchema' = ParseAIResponse(c.resp).schema
                       /\ UNCHANGED logged
    /\ UNCHANGED <<csvString, targetSchema, result, fs, aiMode, apiKey>>

SaveSourceSchema ==
    /\ pc = "saveSource"
    /\ \E w \in SaveJSON(fs.sourceSchema, sourceSchema) :
          /\ fs' = [fs EXCEPT !.sourceSchema = w.file]
          /\ IF w.err # ""
             THEN pc' = "fatal" /\ logged' = "Error saving source schema"
             ELSE pc' = "done" /\ UNCHANGED logged
    /\ UNCHANGED <<csvString, sourceSchema, targetSchema, result, generatorVars>>

NextGenerator ==
    \/ ReadAnswers
    \/ GenerateTargetSchema
    \/ SaveTargetSchema
    \/ GenerateSourceSchema
    \/ SaveSourceSchema

SpecGenerator == InitGenerator /\ [][NextGenerator]_vars

(***************************************************************************)
(* Vocabulary of the properties.  It is written independently of the       *)
(* operators above: the stripped form of a string is cut out by positions, *)
(* the rows of a text are counted, the resolved source entry and the       *)
(* header position are chosen as a least and a greatest element.           *)
(***************************************************************************)
NonSpace(v) == {k \in 1..Len(v) : v[k] \notin {" ", "\t", "\n", "\r"}}

Stripped(v) ==
    IF NonSpace(v) = {} THEN <<>>
    ELSE SubSeq(v, CHOOSE k \in NonSpace(v) : \A j \in NonSpace(v) : k <= j,
                   CHOOSE k \in NonSpace(v) : \A j \in NonSpace(v) : j <= k)

ToLowerChar(c) == IF c = "A" THEN "a" ELSE c

ToLower(v) == [k \in 1..Len(v) |-> ToLowerChar(v[k])]

NonEmptyLineCount(t) == Cardinality({k \in 1..Len(t) : Len(t[k]) > 0})

Rows(t) == SelectSeq(t, LAMBDA l : Len(l) > 0)

Returned == pc = "returned"

Accepted == Returned /\ result.err = ""

Hdr == Rows(csvString)[1]

DataRowIdx == 1..(Len(Rows(csvString)) - 1)

DataRow(n) == Rows(csvString)[n + 1]

TargetIdx == 1..Len(targetSchema)

OutCell(n, i) == result.output[n + 1][i]

\* the first source entry that declares target column i, 0 if there is none
FirstSource(i) ==
    LET M == {k \in 1..Len(sourceSchema) :
                 sourceSchema[k].TargetColumn = targetSchema[i].Column} IN
    IF M = {} THEN 0 ELSE CHOOSE k \in M : \A j \in M : k <= j

HeaderPos(name) == {j \in 1..Len(Hdr) : Stripped(Hdr[j]) = name}

LastPos(name) == CHOOSE j \in HeaderPos(name) : \A j2 \in HeaderPos(name) : j2 <= j

\* target column i has a resolved source entry whose column the header declares
Fed(i) ==
    /\ FirstSource(i) # 0
    /\ HeaderPos(sourceSchema[FirstSource(i)].Column) # {}

FeedPos(i) == LastPos(sourceSchema[FirstSource(i)].Column)

\* the stripped source cell of data row n that feeds target column i
SourceCell(n, i) == Stripped(DataRow(n)[FeedPos(i)])

HasKey(S, v) == ~S.ValuesMapping.isNil /\ v \in DOMAIN S.ValuesMapping.kv

Mapped(S, v) == IF HasKey(S, v) THEN S.ValuesMapping.kv[v] ELSE v

(***************************************************************************)
(* C1: every accepted input gives as many output rows as the input has     *)
(* rows (the header and one row per data row), and every output row, the   *)
(* header included, has exactly Len(targetSchema) cells.                   *)
(***************************************************************************)
C1_RowAndCellCount ==
    Accepted =>
        /\ Len(result.output) = NonEmptyLineCount(csvString)
        /\ \A r \in 1..Len(result.output) : Len(result.output[r]) = Len(targetSchema)

C1_Witness ==
    /\ Accepted
    /\ Len(result.output) >= 3
    /\ Len(targetSchema) = 2
    /\ Len(Hdr) = 1

(***************************************************************************)
(* C2 as amended: for a target column fed by a resolved source entry S     *)
(* whose column is in the header, a non-empty stripped source cell that is *)
(* a key of S.valuesMapping gives the mapped value, and a non-empty one    *)
(* that is no key (or with no mapping) gives the stripped raw value;       *)
(* composite values are looked up as whole strings.                        *)
(***************************************************************************)
C2_MappedOrPassedThrough ==
    Accepted =>
        \A i \in TargetIdx : \A n \in DataRowIdx :
            (Fed(i) /\ SourceCell(n, i) # <<>>) =>
                OutCell(n, i) = Mapped(sourceSchema[FirstSource(i)], SourceCell(n, i))

\* C2 as stated: a stripped cell equal to ANY key gives the mapped value
C2_AsStated ==
    Accepted =>
        \A i \in TargetIdx : \A n \in DataRowIdx :
            Fed(i) =>
                LET S == sourceSchema[FirstSource(i)]
                    v == SourceCell(n, i) IN
                /\ HasKey(S, v) => OutCell(n, i) = S.ValuesMapping.kv[v]
                /\ (v # <<>> /\ ~HasKey(S, v)) => OutCell(n, i) = v

C2_Witness ==
    /\ Accepted
    /\ \E i1, i2 \in TargetIdx : \E n \in DataRowIdx :
          /\ Fed(i1) /\ Fed(i2)
          /\ sourceSchema[FirstSource(i1)].ValuesMapping = MapA
          /\ sourceSchema[FirstSource(i2)].ValuesMapping = MapA
          /\ DataRow(n)[FeedPos(i1)] = <<" ", "x", " ">>
          /\ DataRow(n)[FeedPos(i2)] = <<"x", "+", "y">>
          /\ OutCell(n, i1) = <<"z">>
          /\ OutCell(n, i2) = <<"x", "+", "y">>

(***************************************************************************)
(* C3: a source cell that is empty after stripping whitespace gives the    *)
(* empty output cell, whatever the valuesMapping (also one that has the    *)
(* empty string as a key).                                                 *)
(***************************************************************************)
C3_BlankStaysBlank ==
    Accepted =>
        \A i \in TargetIdx : \A n \in DataRowIdx :
            (Fed(i) /\ SourceCell(n, i) = <<>>) => OutCell(n, i) = <<>>

C3_Witness ==
    /\ Accepted
    /\ \E i \in TargetIdx : \E n \in DataRowIdx :
          /\ Fed(i)
          /\ DataRow(n)[FeedPos(i)] = <<" ">>
          /\ HasKey(sourceSchema[FirstSource(i)], <<>>)
          /\ OutCell(n, i) = <<>>

(***************************************************************************)
(* C4: a target column that no source entry declares as its targetColumn   *)
(* has the empty string in every data row of the output.                   *)
(***************************************************************************)
C4_UnmappedTargetIsBlank ==
    Accepted =>
        \A i \in TargetIdx :
            FirstSource(i) = 0 => \A n \in DataRowIdx : OutCell(n, i) = <<>>

C4_Witness ==
    /\ Accepted
    /\ Len(sourceSchema) > 0
    /\ \E i \in TargetIdx : \E n \in DataRowIdx :
          /\ FirstSource(i) = 0
          /\ \A j \in 1..Len(DataRow(n)) : Stripped(DataRow(n)[j]) # <<>>
          /\ \A k \in 1..Len(sourceSchema) : HeaderPos(sourceSchema[k].Column) # {}

(***************************************************************************)
(* C5: on input without a header row (the empty text, or empty lines       *)
(* only) convertData returns an error and a nil output, and never indexes  *)
(* the missing header row.                                                 *)
(***************************************************************************)
C5_EmptyInputIsAnError ==
    (Returned /\ NonEmptyLineCount(csvString) = 0) =>
        /\ result.err # ""
        /\ result.err # "panic: index out of range"
        /\ result.output = <<>>

C5_Witness ==
    /\ Returned
    /\ csvString = <<>>
    /\ Len(targetSchema) > 0
    /\ result.err # ""

(***************************************************************************)
(* C6: a data row shorter than the header is not an error: the conversion  *)
(* succeeds, the output cells fed by the missing cells are empty and every *)
(* other cell is converted as usual.                                       *)
(***************************************************************************)
C6_ShortRowTolerated ==
    (/\ Returned
     /\ \A n \in DataRowIdx : Len(DataRow(n)) <= Len(Hdr)
     /\ \E n \in DataRowIdx : \E i \in TargetIdx :
           Fed(i) /\ FeedPos(i) > Len(DataRow(n)))
    =>
        /\ result.err = ""
        /\ Len(result.output) = NonEmptyLineCount(csvString)
        /\ \A i \in TargetIdx : \A n \in DataRowIdx :
              Fed(i) =>
                 OutCell(n, i) =
                    IF FeedPos(i) > Len(DataRow(n)) \/ SourceCell(n, i) = <<>>
                    THEN <<>>
                    ELSE Mapped(sourceSchema[FirstSource(i)], SourceCell(n, i))

(***************************************************************************)
(* C7 as amended: the output file is created or truncated only after       *)
(* schema loading, CSV reading and convertData have all succeeded; a run   *)
(* in which one of them fails leaves the output file as it was; a run in   *)
(* which they all succeed calls WriteCSV and ends either with the full     *)
(* table written or, when WriteCSV itself fails, with "Error writing       *)
(* output CSV".                                                            *)
(***************************************************************************)
AllStepsSucceed ==
    /\ fs.source.status = "ok"
    /\ fs.target.status = "ok"
    /\ ReadCSVFile(fs.data).err = ""
    /\ convertData(ReadCSVFile(fs.data).csv, fs.source.schema, fs.target.schema).err = ""

Terminal == pc \in {"done", "fatal"}

FullTableWritten ==
    fs.out = [exists |-> TRUE, touched |-> TRUE, lines |-> csvWrite(result.output)]

C7_WriteOnlyAfterSuccess ==
    /\ fs.out.touched => (AllStepsSucceed /\ Terminal)
    /\ ~AllStepsSucceed => fs.out \in {AbsentOut, OldOut}
    /\ pc = "done" => (AllStepsSucceed /\ FullTableWritten /\ Len(result.output) >= 1)
    /\ (Terminal /\ AllStepsSucceed) =>
          (pc = "done" \/ logged = "Error writing output CSV")

\* C7 as stated: every run in which the three steps succeed writes the table
C7_AsStated ==
    Terminal =>
        /\ ~AllStepsSucceed => fs.out \in {AbsentOut, OldOut}
        /\ AllStepsSucceed => FullTableWritten

C7_Witness ==
    /\ pc = "done"
    /\ FullTableWritten
    /\ Len(fs.out.lines) >= 2
    /\ \E i \in 1..Len(targetSchema) : result.output[2][i] # <<>>

(***************************************************************************)
(* C8 as amended: the converter program rejects every CSV file of fewer    *)
(* than two records, the header-only file as well as the empty one, with   *)
(* "Error reading CSV data"; convertData itself accepts a text of a header *)
(* and no data row and returns exactly one row, the target header.         *)
(***************************************************************************)
PastRead ==
    /\ fs.source.status = "ok"
    /\ fs.target.status = "ok"
    /\ pc \notin {"loadSource", "loadTarget", "readCSV"}

Converted ==
    pc \in {"write", "done"}
    \/ logged \in {"Error converting data", "Error writing output CSV"}

C8_HeaderOnly ==
    /\ (PastRead /\ fs.data.exists /\ NonEmptyLineCount(fs.data.lines) < 2) =>
          (pc = "fatal" /\ logged = "Error reading CSV data"
           /\ fs.out \in {AbsentOut, OldOut})
    /\ (Converted /\ NonEmptyLineCount(csvString) = 1) =>
          (result.err = "" /\ result.output = <<outputHeader(targetSchema)>>)

\* C8 as stated: a file of a header and no data row is converted to one row
C8_AsStated ==
    (/\ PastRead
     /\ fs.data.exists
     /\ NonEmptyLineCount(fs.data.lines) = 1
     /\ \E k \in 1..Len(fs.data.lines) : fs.data.lines[k] \in HeaderLines)
    =>
        /\ logged \in {"", "Error writing output CSV"}
        /\ Converted => result.output = <<outputHeader(targetSchema)>>

C8_Witness ==
    /\ pc = "fatal"
    /\ logged = "Error reading CSV data"
    /\ fs.data.exists
    /\ NonEmptyLineCount(fs.data.lines) = 1
    /\ fs.data.lines[1] \in HeaderLines
    /\ fs.out = OldOut

\* a run of main in which convertData is given a header and no data row
C8_HeaderOnlyConverted ==
    /\ pc = "done"
    /\ NonEmptyLineCount(csvString) = 1
    /\ Len(targetSchema) > 0
    /\ result.output = <<outputHeader(targetSchema)>>

(***************************************************************************)
(* C9 as amended: column lookups are case-sensitive and trim the header    *)
(* side only: a source entry's column resolves to a header position        *)
(* exactly when it equals a header name stripped of surrounding            *)
(* whitespace; the entry's own column is compared as written, and names    *)
(* that differ only in letter case never match.  An unresolved entry       *)
(* gives empty cells, a resolved one reads the cell at that position.      *)
(***************************************************************************)
C9_HeaderSideTrimmedLookup ==
    Accepted =>
        /\ \A k \in 1..Len(sourceSchema) :
              (sourceSchema[k].Column \in DOMAIN sourceColIndex(Hdr))
                  <=> (HeaderPos(sourceSchema[k].Column) # {})
        /\ \A i \in TargetIdx : \A n \in DataRowIdx :
              FirstSource(i) # 0 =>
                 IF Fed(i)
                 THEN SourceCell(n, i) # <<>> =>
                         OutCell(n, i) =
                            Mapped(sourceSchema[FirstSource(i)], SourceCell(n, i))
                 ELSE OutCell(n, i) = <<>>

\* C9 as stated: the two names are compared after stripping both of them
BothSidesPos(name) == {j \in 1..Len(Hdr) : Stripped(Hdr[j]) = Stripped(name)}

C9_AsStated ==
    Accepted =>
        \A i \in TargetIdx : \A n \in DataRowIdx :
            FirstSource(i) # 0 =>
               LET P == BothSidesPos(sourceSchema[FirstSource(i)].Column) IN
               IF P # {}
               THEN LET j == CHOOSE j1 \in P : \A j2 \in P : j2 <= j1
                        v == Stripped(DataRow(n)[j]) IN
                    v # <<>> => OutCell(n, i) = Mapped(sourceSchema[FirstSource(i)], v)
               ELSE OutCell(n, i) = <<>>

C9_Witness ==
    /\ Accepted
    /\ \E i1, i2 \in TargetIdx : \E n \in DataRowIdx :
          /\ Fed(i1)
          /\ Hdr[FeedPos(i1)] # sourceSchema[FirstSource(i1)].Column
          /\ OutCell(n, i1) # <<>>
          /\ FirstSource(i2) # 0
          /\ ~Fed(i2)
          /\ \E j \in 1..Len(Hdr) :
                /\ ToLower(Stripped(Hdr[j])) = ToLower(sourceSchema[FirstSource(i2)].Column)
                /\ Stripped(DataRow(n)[j]) # <<>>
          /\ OutCell(n, i2) = <<>>

(***************************************************************************)
(* C10 as amended: for an identity schema whose entries have no            *)
(* valuesMapping and whose column names have no surrounding whitespace,    *)
(* and a table whose header is the schema's columns, convertData returns   *)
(* the table with every data cell stripped; converting a text whose        *)
(* records are that output returns the output unchanged, and so does       *)
(* converting the output as csv.Writer writes it unless an output row is   *)
(* a single empty cell.                                                    *)
(***************************************************************************)
TrimmedTable ==
    [r \in 1..Len(csvString) |->
        IF r = 1 THEN csvString[1]
        ELSE [j \in 1..Len(csvString[r]) |-> Stripped(csvString[r][j])]]

Again(text) == convertData(text, sourceSchema, targetSchema)

PlainIdentity ==
    \A k \in 1..Len(sourceSchema) :
        /\ sourceSchema[k].ValuesMapping.isNil
        /\ Stripped(sourceSchema[k].Column) = sourceSchema[k].Column

NoLoneEmptyCell(table) == \A r \in 1..Len(table) : table[r] # << <<>> >>

C10_PlainIdentityIdempotent ==
    (Returned /\ PlainIdentity) =>
        /\ result.err = ""
        /\ result.output = TrimmedTable
        /\ Again(result.output) = result
        /\ NoLoneEmptyCell(result.output) => Again(csvWrite(result.output)) = result

\* C10 as stated: any identity schema, and the output converted again
C10_AsStated ==
    Returned =>
        /\ result.err = ""
        /\ result.output = TrimmedTable
        /\ Again(result.output) = result

C10_Witness ==
    /\ Returned
    /\ PlainIdentity
    /\ Len(sourceSchema) = 2
    /\ Len(csvString) >= 3
    /\ result.output = TrimmedTable
    /\ result.output # csvString
    /\ Again(result.output) = result

(***************************************************************************)
(* C11: the first output row is exactly the sequence of the target         *)
(* entries' column names in target-schema order; it is a function of the   *)
(* target schema alone (the source header, the source schema and the data  *)
(* rows do not occur in it).                                               *)
(***************************************************************************)
C11_HeaderIsTargetColumns ==
    Accepted =>
        /\ Len(result.output) >= 1
        /\ Len(result.output[1]) = Len(targetSchema)
        /\ \A i \in TargetIdx : result.output[1][i] = targetSchema[i].Column

C11_Witness ==
    /\ Accepted
    /\ Len(targetSchema) = 2
    /\ targetSchema[1].Column = <<"q">>
    /\ targetSchema[2].Column = <<"p">>
    /\ Len(Hdr) = 2
    /\ Len(sourceSchema) = 2
    /\ sourceSchema[1].TargetColumn = <<"p">>
    /\ sourceSchema[2].TargetColumn = <<"q">>
    /\ DataRowIdx # {}
    /\ result.output[1] = <<<<"q">>, <<"p">>>>

(***************************************************************************)
(* The conversion C12 describes: the per-cell scan of the source schema is *)
(* replaced by a dictionary from target-column name to source entry built  *)
(* once per call; the rest of the loop body is the code's.  Two builds are *)
(* written: plain assignment in declared order (m[targetColumn] = entry,   *)
(* the way convertData builds sourceColIndex), under which a later entry   *)
(* overwrites an earlier one, and insertion only when the key is absent.   *)
(***************************************************************************)
RECURSIVE PlainTargetMap(_, _, _)
PlainTargetMap(schema, k, m) ==
    IF k > Len(schema) THEN m
    ELSE PlainTargetMap(schema, k + 1, MapPut(m, schema[k].TargetColumn, schema[k]))

RECURSIVE FirstWinsTargetMap(_, _, _)
FirstWinsTargetMap(schema, k, m) ==
    IF k > Len(schema) THEN m
    ELSE FirstWinsTargetMap(schema, k + 1,
             IF schema[k].TargetColumn \in DOMAIN m THEN m
             ELSE MapPut(m, schema[k].TargetColumn, schema[k]))

MapCell(m, sourceRow, colIndex, targetCol) ==
    IF targetCol.Column \notin DOMAIN m THEN <<>>
    ELSE LET sourceCol == m[targetCol.Column] IN
         IF sourceCol.Column \in DOMAIN colIndex
            /\ colIndex[sourceCol.Column] <= Len(sourceRow)
         THEN LET sourceValue == TrimSpace(sourceRow[colIndex[sourceCol.Column]]) IN
              IF sourceValue # <<>> THEN convertValue(sourceValue, sourceCol) ELSE <<>>
         ELSE <<>>

ConvertByMap(m) ==
    <<[i \in TargetIdx |-> targetSchema[i].Column]>> \o
    [n \in DataRowIdx |->
        [i \in TargetIdx |-> MapCell(m, DataRow(n), sourceColIndex(Hdr), targetSchema[i])]]

DistinctTargetColumns ==
    \A k1, k2 \in 1..Len(sourceSchema) :
        sourceSchema[k1].TargetColumn = sourceSchema[k2].TargetColumn => k1 = k2

(***************************************************************************)
(* C12 as amended: the dictionary-based conversion gives the output of the *)
(* linear scan for every input when the dictionary keeps, for each target  *)
(* column name, the first entry in declared order; with the dictionary     *)
(* built by plain assignment it gives the same output whenever no two      *)
(* source entries declare the same targetColumn.                           *)
(***************************************************************************)
C12_FirstWinsMapEquivalent ==
    Accepted =>
        /\ ConvertByMap(FirstWinsTargetMap(sourceSchema, 1, EmptyMap)) = result.output
        /\ DistinctTargetColumns =>
              ConvertByMap(PlainTargetMap(sourceSchema, 1, EmptyMap)) = result.output

\* C12 as stated: the plainly built dictionary gives the scan's output for
\* every input, duplicate targetColumn declarations included
C12_AsStated ==
    Accepted =>
        ConvertByMap(PlainTargetMap(sourceSchema, 1, EmptyMap)) = result.output

C12_Witness ==
    /\ Accepted
    /\ Len(sourceSchema) = 2
    /\ sourceSchema[1].TargetColumn = sourceSchema[2].TargetColumn
    /\ sourceSchema[1].Column # sourceSchema[2].Column
    /\ HeaderPos(sourceSchema[1].Column) # {}
    /\ HeaderPos(sourceSchema[2].Column) # {}
    /\ \E i \in TargetIdx : \E n \in DataRowIdx :
          /\ FirstSource(i) = 1
          /\ OutCell(n, i) # <<>>
          /\ OutCell(n, i) #
                MapCell(PlainTargetMap(sourceSchema, 1, EmptyMap), DataRow(n),
                        sourceColIndex(Hdr), targetSchema[i])
    /\ ConvertByMap(FirstWinsTargetMap(sourceSchema, 1, EmptyMap)) = result.output

(***************************************************************************)
(* C13: the values lists of the schema entries are descriptive only.  The  *)
(* result of a call is the result of the call on the same schemas with     *)
(* every values list erased (so two calls whose schemas differ only in     *)
(* their values lists return the same), and a non-empty stripped cell      *)
(* gives its mapped or passed-through value whether or not the values list *)
(* of its source entry or of its target entry contains it.                 *)
(***************************************************************************)
WithoutValues(schema) == [k \in 1..Len(schema) |-> [schema[k] EXCEPT !.Values = <<>>]]

C13_ValuesDescriptiveOnly ==
    Returned =>
        /\ result = convertData(csvString, WithoutValues(sourceSchema),
                                WithoutValues(targetSchema))
        /\ Accepted =>
              \A i \in TargetIdx : \A n \in DataRowIdx :
                  (Fed(i) /\ SourceCell(n, i) # <<>>) =>
                      OutCell(n, i) = Mapped(sourceSchema[FirstSource(i)], SourceCell(n, i))

C13_Witness ==
    /\ Accepted
    /\ \E i \in TargetIdx : \E n \in DataRowIdx :
          /\ Fed(i)
          /\ SourceCell(n, i) = <<"x", "+", "y">>
          /\ sourceSchema[FirstSource(i)].Values = << <<"x">>, <<"z">> >>
          /\ targetSchema[i].Values = << <<"x">>, <<"z">> >>
          /\ OutCell(n, i) = <<"x", "+", "y">>
    /\ WithoutValues(sourceSchema) # sourceSchema

(***************************************************************************)
(* C14: a call of convertData, whether it returns an output or an error,   *)
(* leaves its three arguments as they were: the text, the source schema    *)
(* and the target schema, every valuesMapping included.                    *)
(***************************************************************************)
C14_InputsUnchanged ==
    [][(pc = "convertData" /\ pc' = "returned") =>
          /\ csvString' = csvString
          /\ sourceSchema' = sourceSchema
          /\ targetSchema' = targetSchema]_vars

C14_Witness ==
    /\ Accepted
    /\ \E k \in 1..Len(sourceSchema) :
          /\ sourceSchema[k].Column = <<" ", "a", " ">>
          /\ sourceSchema[k].ValuesMapping = MapA
    /\ \E i \in TargetIdx : \E n \in DataRowIdx :
          /\ Fed(i)
          /\ HasKey(sourceSchema[FirstSource(i)], SourceCell(n, i))
          /\ OutCell(n, i) = <<"z">>

(***************************************************************************)
(* C15 as stated: in the schema generator, after the answer LOCAL every AI *)
(* request is posted to the local Ollama endpoint, and after the answer    *)
(* CLOUD or a blank answer every AI request is posted to the cloud         *)
(* endpoint.  (aiMode holds the trimmed answer, CLOUD for a blank one.)    *)
(***************************************************************************)
C15_ModeSelectsEndpoint ==
    \A k \in 1..Len(sent) :
        /\ aiMode = <<"L", "O", "C", "A", "L">> => sent[k] = LOCAL_AI_ENDPOINT
        /\ aiMode = <<"C", "L", "O", "U", "D">> => sent[k] = CLOUD_AI_ENDPOINT

(***************************************************************************)
(* C16 as stated: for every payload P, ParseAIResponse decodes the schema  *)
(* of P from P bare, from P in a ```json or ``` fence, from P after a      *)
(* <think>...</think> block, and from P in a fence after such a block.     *)
(***************************************************************************)
WrapsPayload(P) ==
    \/ resp = P
    \/ \E open \in {FenceJson, Backticks} : resp = InFence(open, P)
    \/ \E T \in ThinkTexts : resp = AfterThink(T, P)
    \/ \E T \in ThinkTexts : \E open \in {FenceJson, Backticks} :
          resp = AfterThink(T, InFence(open, P))

SchemaOf(P) ==
    LET syms == SelectSeq(P, LAMBDA c : c \in ObjectSymbols) IN
    [k \in 1..Len(syms) |-> ObjectOf(syms[k])]

C16_WrappersStripped ==
    Returned =>
        \A P \in Payloads :
            WrapsPayload(P) => result = [err |-> "", schema |-> SchemaOf(P)]

LaterEntryHasValue(n, i) ==
    \E k \in (FirstSource(i) + 1)..Len(sourceSchema) :
        /\ sourceSchema[k].TargetColumn = targetSchema[i].Column
        /\ HeaderPos(sourceSchema[k].Column) # {}
        /\ Stripped(DataRow(n)[LastPos(sourceSchema[k].Column)]) # <<>>

C18_LastDuplicateHeaderWins ==
    Accepted =>
        \A i \in TargetIdx : \A n \in DataRowIdx :
            (FirstSource(i) # 0
             /\ Cardinality(HeaderPos(sourceSchema[FirstSource(i)].Column)) >= 2) =>
                LET S == sourceSchema[FirstSource(i)]
                    last == CHOOSE j \in HeaderPos(S.Column) :
                                \A j2 \in HeaderPos(S.Column) : j2 <= j
                    cell == Stripped(DataRow(n)[last])
                IN OutCell(n, i) = IF cell = <<>> THEN <<>> ELSE Mapped(S, cell)

C18_Witness ==
    /\ Accepted
    /\ Hdr = <<<<"a">>, <<" ", "a", " ">>>>
    /\ \E i \in TargetIdx : \E n \in DataRowIdx :
          /\ FirstSource(i) # 0
          /\ sourceSchema[FirstSource(i)].Column = <<"a">>
          /\ sourceSchema[FirstSource(i)].ValuesMapping = NilMapping
          /\ DataRow(n) = <<<<" ", "x", " ">>, <<"x", "+", "y">>>>
          /\ OutCell(n, i) = <<"x", "+", "y">>

(***************************************************************************)
(* C19 as stated: source entries without targetColumn never make the call  *)
(* fail and supply no output cell, whatever the target schema: the call    *)
(* returns what it returns on the source schema without them.              *)
(***************************************************************************)
WithoutUnmapped(schema) == SelectSeq(schema, LAMBDA e : e.TargetColumn # <<>>)

C19_UnmappedEntrySuppliesNothing ==
    Returned =>
        result = convertData(csvString, WithoutUnmapped(sourceSchema), targetSchema)

(***************************************************************************)
(* C20 as stated: a named target column whose source entry has no column   *)
(* name ("column": null) has the empty string in every data row of the     *)
(* output, whatever the header and the rows hold, headers with an empty or *)
(* blank name included.                                                    *)
(***************************************************************************)
C20_NullColumnGivesBlank ==
    Accepted =>
        \A i \in TargetIdx : \A n \in DataRowIdx :
            (/\ targetSchema[i].Column # <<>>
             /\ FirstSource(i) # 0
             /\ sourceSchema[FirstSource(i)].Column = <<>>) =>
                OutCell(n, i) = <<>>

(***************************************************************************)
(* Vocabulary of the generator's files.                                    *)
(***************************************************************************)
TargetFileWritten ==
    fs.targetSchema = [status |-> "ok", schema |-> targetSchema, touched |-> TRUE]

SourceFileWritten ==
    fs.sourceSchema = [status |-> "ok", schema |-> sourceSchema, touched |-> TRUE]

GeneratorEnded == pc \in {"done", "fatal"}

SourceStageFailed ==
    /\ pc = "fatal"
    /\ logged \in {"Error generating source schema", "Error saving source schema"}

(***************************************************************************)
(* C21 as amended: the target schema file is fully written before source   *)
(* schema generation starts, and the source schema file is touched only    *)
(* after that, by the last step.  A run that ends with the source schema   *)
(* file touched has the target schema file written.  A run whose source    *)
(* schema generation fails ends with the target schema file written and    *)
(* the source schema file untouched; a run whose source schema save fails  *)
(* ends with the target schema file written and the source schema file     *)
(* either untouched (os.Create failed) or created with incomplete content  *)
(* (the write failed).  A run that ends without failure has written both.  *)
(***************************************************************************)
C21_TargetFileBeforeSourceFile ==
    /\ pc \in {"generateSource", "saveSource", "done"} => TargetFileWritten
    /\ pc \in {"readAnswers", "generateTarget", "saveTarget", "generateSource",
               "saveSource"} => ~fs.sourceSchema.touched
    /\ fs.sourceSchema.touched => TargetFileWritten
    /\ SourceStageFailed => TargetFileWritten
    /\ (pc = "fatal" /\ logged = "Error generating source schema") =>
          ~fs.sourceSchema.touched
    /\ (pc = "fatal" /\ logged = "Error saving source schema") =>
          \/ ~fs.sourceSchema.touched
          \/ fs.sourceSchema = [status |-> "malformed", schema |-> <<>>, touched |-> TRUE]
    /\ pc = "done" => SourceFileWritten

\* C21 as stated: a run whose source schema generation or save fails ends
\* with the target schema file written and no source schema file of this run
C21_AsStated ==
    /\ (GeneratorEnded /\ fs.sourceSchema.touched) => TargetFileWritten
    /\ SourceStageFailed => (TargetFileWritten /\ ~fs.sourceSchema.touched)

C21_Witness ==
    /\ pc = "fatal"
    /\ logged = "Error generating source schema"
    /\ sent # <<>>
    /\ TargetFileWritten
    /\ Len(targetSchema) = 2
    /\ fs.sourceSchema = Untouched(OldSchemaFile)

(***************************************************************************)
(* C22: every output cell of a data row is the empty string, or the        *)
(* stripped content of a cell of the input row of the same index, or a     *)
(* value of the valuesMapping of the resolved source entry, as written     *)
(* there.  A source cell that is not blank gives the empty output cell     *)
(* only when the mapping maps it to the empty string, and an output cell   *)
(* of whitespace alone only when the mapping maps it to such a string.     *)
(***************************************************************************)
C22_CellProvenance ==
    Accepted =>
        \A i \in TargetIdx : \A n \in DataRowIdx :
            /\ \/ OutCell(n, i) = <<>>
               \/ \E j \in 1..Len(DataRow(n)) : OutCell(n, i) = Stripped(DataRow(n)[j])
               \/ /\ FirstSource(i) # 0
                  /\ ~sourceSchema[FirstSource(i)].ValuesMapping.isNil
                  /\ \E key \in DOMAIN sourceSchema[FirstSource(i)].ValuesMapping.kv :
                        OutCell(n, i) = sourceSchema[FirstSource(i)].ValuesMapping.kv[key]
            /\ (Fed(i) /\ SourceCell(n, i) # <<>> /\ OutCell(n, i) = <<>>) =>
                  /\ HasKey(sourceSchema[FirstSource(i)], SourceCell(n, i))
                  /\ sourceSchema[FirstSource(i)].ValuesMapping.kv[SourceCell(n, i)] = <<>>
            /\ (Fed(i) /\ SourceCell(n, i) # <<>> /\ Stripped(OutCell(n, i)) = <<>>) =>
                  /\ HasKey(sourceSchema[FirstSource(i)], SourceCell(n, i))
                  /\ Stripped(sourceSchema[FirstSource(i)].ValuesMapping.kv[SourceCell(n, i)]) = <<>>

C22_Witness ==
    /\ Accepted
    /\ Len(targetSchema) = 2
    /\ Fed(1) /\ Fed(2)
    /\ \E n \in DataRowIdx :
          /\ DataRow(n)[FeedPos(1)] = <<" ", "x", " ">>
          /\ OutCell(n, 1) = <<>>
          /\ DataRow(n)[FeedPos(2)] = <<"x", "+", "y">>
          /\ OutCell(n, 2) = <<" ", "z", " ">>

====
